---- MODULE Spec2Model ----
(***************************************************************************)
(* Model of src/app.py of line-at-helper: the short-TTL CSV fetch cache    *)
(* (fetch_gviz_csv), the A1 address resolver (a1_to_index), the table      *)
(* lookup (get_a1) and the webhook's message handler (handle_message).     *)
(*                                                                         *)
(* Text is modelled as a sequence of one-character strings, so strip(),    *)
(* upper(), startswith(), splitlines() and int() are computed and not      *)
(* assumed.                                                                *)
(***************************************************************************)
EXTENDS Integers, Sequences, FiniteSets, TLC

VARIABLES
    now,          \* now_tw().timestamp(), in seconds
    GVIZ_CACHE,   \* url -> NoEntry | <<expiry, rows>>        (app.py:55)
    pc,           \* thread -> position inside fetch_gviz_csv
    url,          \* thread -> argument of the running call
    exp_ts,       \* thread -> local exp_ts      (app.py:60)
    cached_rows,  \* thread -> local cached_rows (app.py:60)
    rows,         \* thread -> local rows        (app.py:71)
    resp,         \* thread -> local resp as <<status, body>> (app.py:66)
    result,       \* thread -> outcome of the thread's latest call
    nget,         \* thread -> requests.get calls made by the running call
    checkAt,      \* thread -> clock value read by the running call's cache check
    last,         \* url -> summary of the latest completed call (history)
    lastStore,    \* url -> <<thread, expiry, rows>> of the latest store (history)
    ncalls,       \* calls started so far
    a1,           \* argument a1 of a1_to_index and get_a1
    index,        \* outcome of a1_to_index(a1)
    table,        \* argument rows of get_a1
    dflt,         \* argument default of get_a1
    cell,         \* outcome of get_a1(table, a1, dflt)
    hpc,          \* thread -> position inside handle_message
    event,        \* thread -> text of the message event being handled
    outcome       \* thread -> what handling the latest event did

fetchVars == <<now, GVIZ_CACHE, pc, url, exp_ts, cached_rows, rows, resp, result,
               nget, checkAt, last, lastStore, ncalls>>

resolverVars == <<a1, index, table, dflt, cell>>

handlerVars == <<hpc, event, outcome>>

vars == <<fetchVars, resolverVars, handlerVars>>

-----------------------------------------------------------------------------
(* Bounds of the model *)

MaxTime == 600
MaxCalls == 2
MaxRefLen == 3
MaxRows == 2

\* two request-handling threads: enough for any two calls to overlap
Threads == {1, 2}
Urls == {"WEEKLY_CSV_URL", "DAILY_CSV_URL"}
TickSteps == {150, 300}

\* int(os.getenv("GVIZ_CACHE_TTL", "300"))
CACHE_TTL_SECONDS == 300

-----------------------------------------------------------------------------
(* Text helpers: Python str methods on sequences of characters *)

Whitespace == {" ", "\n", "\t"}

RECURSIVE LStrip(_)
LStrip(s) ==
    IF s # <<>> /\ Head(s) \in Whitespace THEN LStrip(Tail(s)) ELSE s

RECURSIVE RStrip(_)
RStrip(s) ==
    IF s # <<>> /\ s[Len(s)] \in Whitespace
    THEN RStrip(SubSeq(s, 1, Len(s) - 1))
    ELSE s

\* Strip that trims nothing
StripNothing(s) == s

\* str.strip()
Strip(s) == RStrip(LStrip(s))

\* str.startswith(prefix)
StartsWith(s, prefix) ==
    /\ Len(s) >= Len(prefix)
    /\ SubSeq(s, 1, Len(prefix)) = prefix

\* the pieces of s between occurrences of sep (sep is one character);
\* cur is the piece being collected
RECURSIVE SplitOn(_, _, _)
SplitOn(s, sep, cur) ==
    IF s = <<>> THEN <<cur>>
    ELSE IF Head(s) = sep THEN <<cur>> \o SplitOn(Tail(s), sep, <<>>)
    ELSE SplitOn(Tail(s), sep, Append(cur, Head(s)))

\* str.splitlines(): no lines for the empty text, no last empty line
SplitLines(text) ==
    IF text = <<>> THEN <<>>
    ELSE LET parts == SplitOn(text, "\n", <<>>)
         IN  IF parts[Len(parts)] = <<>>
             THEN SubSeq(parts, 1, Len(parts) - 1)
             ELSE parts

\* csv.reader on one line without quote characters: an empty line is an
\* empty row, any other line is split on commas
CsvLine(line) == IF line = <<>> THEN <<>> ELSE SplitOn(line, ",", <<>>)

\* list(csv.reader(text.splitlines()))
ParseCsv(text) ==
    LET lines == SplitLines(text)
    IN  [i \in 1..Len(lines) |-> CsvLine(lines[i])]

HtmlMarker ==
    <<"<", "!", "D", "O", "C", "T", "Y", "P", "E", " ", "h", "t", "m", "l">>

-----------------------------------------------------------------------------
(* Responses the remote endpoint can give *)

Statuses == {200, 403}

CsvBody == <<"a", ",", "b", "\n", "1", ",", "2", "\n">>
HtmlBody == HtmlMarker \o <<">", "<", "h", "t", "m", "l", ">">>
PaddedHtmlBody == <<"\n", " ">> \o HtmlMarker \o <<">", "\n">>
TagBody == <<"<", "h", "t", "m", "l", ">">>

Bodies == {CsvBody, HtmlBody, PaddedHtmlBody, TagBody}

\* Response.raise_for_status(): raises for 4xx and 5xx
RaisesForStatus(status) == status >= 400 /\ status < 600

\* Python None and a value that is not None, for the locals that can be None
None == <<>>
Some(x) == <<x>>

NoEntry == <<>>
NoResult == [kind |-> "none", gets |-> 0]
NoCall == [ok |-> FALSE, gets |-> 0, at |-> 0]
Errors == {"RequestException", "HTTPError", "RuntimeError"}

-----------------------------------------------------------------------------
(* fetch_gviz_csv, one thread per running call *)

\* GVIZ_CACHE.get(url, (0.0, None))
CacheGet(cache, u) ==
    IF cache[u] = NoEntry THEN <<0, None>> ELSE <<cache[u][1], Some(cache[u][2])>>

\* CacheFresh with the comparison weakened to >=
CacheFreshAtExpiry(e, r, t) == r # None /\ e >= t

\* cached_rows is not None and exp_ts > now_tw().timestamp()
CacheFresh(e, r, t) == r # None /\ e > t

\* Expiry without the time-to-live added
ExpiryNow(t) == t

\* now_tw().timestamp() + CACHE_TTL_SECONDS
Expiry(t) == t + CACHE_TTL_SECONDS

\* StoreEntry writing the expiry but keeping the rows of an entry already there
StoreEntryTorn(cache, u, e, r) ==
    [cache EXCEPT ![u] = IF cache[u] = NoEntry THEN <<e, r>> ELSE <<e, cache[u][2]>>]

\* GVIZ_CACHE[url] = (expiry, rows)
StoreEntry(cache, u, e, r) == [cache EXCEPT ![u] = <<e, r>>]

\* which exception lines 66-70 raise for a response, "" when none
ResponseError(status, body) ==
    IF RaisesForStatus(status) THEN "HTTPError"
    ELSE IF StartsWith(Strip(body), HtmlMarker) THEN "RuntimeError"
    ELSE ""

FetchInit ==
    /\ now = 0
    /\ GVIZ_CACHE = [u \in Urls |-> NoEntry]
    /\ pc = [t \in Threads |-> "idle"]
    /\ url = [t \in Threads |-> "WEEKLY_CSV_URL"]
    /\ exp_ts = [t \in Threads |-> 0]
    /\ cached_rows = [t \in Threads |-> None]
    /\ rows = [t \in Threads |-> None]
    /\ resp = [t \in Threads |-> None]
    /\ result = [t \in Threads |-> NoResult]
    /\ nget = [t \in Threads |-> 0]
    /\ checkAt = [t \in Threads |-> 0]
    /\ last = [u \in Urls |-> NoCall]
    /\ lastStore = [u \in Urls |-> NoEntry]
    /\ ncalls = 0

\* the clock advances
Tick ==
    /\ UNCHANGED <<resolverVars, handlerVars>>
    /\ \E d \in TickSteps :
          /\ now + d <= MaxTime
          /\ now' = now + d
    /\ UNCHANGED <<GVIZ_CACHE, pc, url, exp_ts, cached_rows, rows, resp, result,
                   nget, checkAt, last, lastStore, ncalls>>

\* line 57: thread t enters fetch_gviz_csv(u)
Enter(t, u) ==
    /\ pc[t] = "idle"
    /\ ncalls < MaxCalls
    /\ ncalls' = ncalls + 1
    /\ pc' = [pc EXCEPT ![t] = "read"]
    /\ url' = [url EXCEPT ![t] = u]
    /\ result' = [result EXCEPT ![t] = NoResult]
    /\ UNCHANGED <<now, GVIZ_CACHE, exp_ts, cached_rows, rows, resp, nget,
                   checkAt, last, lastStore>>

\* a caller enters fetch_gviz_csv(u)
Call(t, u) ==
    /\ UNCHANGED <<resolverVars, handlerVars>>
    /\ Enter(t, u)

\* the call of thread t ends with outcome res: its locals are gone, and the
\* history of its URL records whether it succeeded, its GETs and, when it
\* stored, the time of the store
Return(t, res, storedAt) ==
    /\ pc' = [pc EXCEPT ![t] = "idle"]
    /\ result' = [result EXCEPT ![t] = res]
    /\ exp_ts' = [exp_ts EXCEPT ![t] = 0]
    /\ cached_rows' = [cached_rows EXCEPT ![t] = None]
    /\ rows' = [rows EXCEPT ![t] = None]
    /\ resp' = [resp EXCEPT ![t] = None]
    /\ nget' = [nget EXCEPT ![t] = 0]
    /\ checkAt' = [checkAt EXCEPT ![t] = 0]
    /\ last' = [last EXCEPT ![url[t]] =
                   [ok |-> res.kind \notin Errors, gets |-> res.gets,
                    at |-> storedAt]]

\* line 60: exp_ts, cached_rows = GVIZ_CACHE.get(url, (0.0, None))
CacheRead(t) ==
    /\ UNCHANGED <<resolverVars, handlerVars>>
    /\ pc[t] = "read"
    /\ exp_ts' = [exp_ts EXCEPT ![t] = CacheGet(GVIZ_CACHE, url[t])[1]]
    /\ cached_rows' = [cached_rows EXCEPT ![t] = CacheGet(GVIZ_CACHE, url[t])[2]]
    /\ pc' = [pc EXCEPT ![t] = "check"]
    /\ UNCHANGED <<now, GVIZ_CACHE, url, rows, resp, result, nget, checkAt,
                   last, lastStore, ncalls>>

\* lines 61-62: a fresh entry is returned, anything else goes to the network
CacheCheck(t) ==
    /\ UNCHANGED <<resolverVars, handlerVars>>
    /\ pc[t] = "check"
    /\ IF CacheFresh(exp_ts[t], cached_rows[t], now)
       THEN Return(t, [kind |-> "cached", gets |-> nget[t],
                       rows |-> cached_rows[t][1]], 0)
       ELSE /\ pc' = [pc EXCEPT ![t] = "get"]
            /\ checkAt' = [checkAt EXCEPT ![t] = now]
            /\ UNCHANGED <<exp_ts, cached_rows, rows, result, nget, last>>
    /\ UNCHANGED <<now, GVIZ_CACHE, url, lastStore, ncalls>>
    /\ CacheFresh(exp_ts[t], cached_rows[t], now) \/ UNCHANGED resp

\* line 66: requests.get(url, ...) is issued and the thread blocks on it
HttpGet(t) ==
    /\ UNCHANGED <<resolverVars, handlerVars>>
    /\ pc[t] = "get"
    /\ nget' = [nget EXCEPT ![t] = nget[t] + 1]
    /\ pc' = [pc EXCEPT ![t] = "inflight"]
    /\ UNCHANGED <<now, GVIZ_CACHE, url, exp_ts, cached_rows, rows, resp,
                   result, checkAt, last, lastStore, ncalls>>

\* Raise dropping the URL's entry on the way out
RaiseEvicting(t, err) ==
    /\ Return(t, [kind |-> err, gets |-> nget[t]], 0)
    /\ GVIZ_CACHE' = [GVIZ_CACHE EXCEPT ![url[t]] = NoEntry]

\* lines 66-70: an exception leaves fetch_gviz_csv; nothing is caught, retried
\* or written on the way out
Raise(t, err) ==
    /\ Return(t, [kind |-> err, gets |-> nget[t]], 0)
    /\ GVIZ_CACHE' = GVIZ_CACHE

\* line 66: requests.get raises (connection failure, timeout)
RequestFails(t) ==
    /\ UNCHANGED <<resolverVars, handlerVars>>
    /\ pc[t] = "inflight"
    /\ Raise(t, "RequestException")
    /\ UNCHANGED <<now, url, lastStore, ncalls>>

\* line 66: requests.get returns a response
Receive(t) ==
    /\ UNCHANGED <<resolverVars, handlerVars>>
    /\ pc[t] = "inflight"
    /\ \E status \in Statuses, body \in Bodies :
          resp' = [resp EXCEPT ![t] = Some(<<status, body>>)]
    /\ pc' = [pc EXCEPT ![t] = "received"]
    /\ UNCHANGED <<now, GVIZ_CACHE, url, exp_ts, cached_rows, rows, result,
                   nget, checkAt, last, lastStore, ncalls>>

\* lines 67-71: the response is checked and parsed
Parse(t) ==
    /\ UNCHANGED <<resolverVars, handlerVars>>
    /\ pc[t] = "received"
    /\ LET status == resp[t][1][1]
           body == resp[t][1][2]
       IN  IF ResponseError(status, body) # ""
           THEN Raise(t, ResponseError(status, body))
           ELSE /\ rows' = [rows EXCEPT ![t] = Some(ParseCsv(Strip(body)))]
                /\ pc' = [pc EXCEPT ![t] = "store"]
                /\ UNCHANGED <<GVIZ_CACHE, exp_ts, cached_rows, resp, result,
                               nget, checkAt, last>>
    /\ UNCHANGED <<now, url, lastStore, ncalls>>

\* lines 75-78: the entry is overwritten and the table returned
CacheStore(t) ==
    /\ UNCHANGED <<resolverVars, handlerVars>>
    /\ pc[t] = "store"
    /\ GVIZ_CACHE' = StoreEntry(GVIZ_CACHE, url[t], Expiry(now), rows[t][1])
    /\ lastStore' = [lastStore EXCEPT ![url[t]] = <<t, Expiry(now), rows[t][1]>>]
    /\ Return(t, [kind |-> "fetched", gets |-> nget[t], rows |-> rows[t][1]], now)
    /\ UNCHANGED <<now, url, ncalls>>

Step(t) ==
    \/ \E u \in Urls : Call(t, u)
    \/ CacheRead(t)
    \/ CacheCheck(t)
    \/ HttpGet(t)
    \/ RequestFails(t)
    \/ Receive(t)
    \/ Parse(t)
    \/ CacheStore(t)

\* neither a1_to_index nor get_a1 has been called
NotRun == [kind |-> "none"]

ResolverIdle ==
    /\ a1 = <<>>
    /\ index = NotRun
    /\ table = <<>>
    /\ dflt = <<>>
    /\ cell = NotRun

\* an event that was handled without a reply, a fetch or an exception
NoOutcome == [sends |-> 0, replies |-> 0, fetches |-> 0, raised |-> FALSE]

\* no message event has arrived
HandlerIdle ==
    /\ hpc = [t \in Threads |-> "idle"]
    /\ event = [t \in Threads |-> None]
    /\ outcome = [t \in Threads |-> NoOutcome]

Init == FetchInit /\ ResolverIdle /\ HandlerIdle

Next ==
    \/ Tick
    \/ \E t \in Threads : Step(t)

\* one caller at a time: every call returns before the next one starts
NextSeq ==
    \/ Tick
    \/ Step(1)

Spec == Init /\ [][Next]_vars

SpecSeq == Init /\ [][NextSeq]_vars

-----------------------------------------------------------------------------
(* Characters: what str.isalpha, str.isdigit, str.upper, ord and int make of *)
(* them.  Besides ASCII the model has one accented letter and two digits     *)
(* that are not ASCII: a superscript two, which isdigit accepts and int      *)
(* rejects, and a full-width one, which both accept.                         *)

UpperAZ == <<"A", "B", "C", "D", "E", "F", "G", "H", "I", "J", "K", "L", "M",
             "N", "O", "P", "Q", "R", "S", "T", "U", "V", "W", "X", "Y", "Z">>
LowerAZ == <<"a", "b", "c", "d", "e", "f", "g", "h", "i", "j", "k", "l", "m",
             "n", "o", "p", "q", "r", "s", "t", "u", "v", "w", "x", "y", "z">>
Digits09 == <<"0", "1", "2", "3", "4", "5", "6", "7", "8", "9">>

EAcuteLower == "e-acute"
EAcuteUpper == "E-acute"
SuperscriptTwo == "superscript-2"
FullwidthOne == "fullwidth-1"

Range(seq) == {seq[i] : i \in 1..Len(seq)}
IndexOf(seq, ch) == CHOOSE i \in 1..Len(seq) : seq[i] = ch

\* ch.isalpha()
IsAlpha(ch) ==
    ch \in Range(UpperAZ) \cup Range(LowerAZ) \cup {EAcuteLower, EAcuteUpper}

\* ch.isdigit()
IsDigit(ch) == ch \in Range(Digits09) \cup {SuperscriptTwo, FullwidthOne}

\* ch.upper()
Upper(ch) ==
    IF ch \in Range(LowerAZ) THEN UpperAZ[IndexOf(LowerAZ, ch)]
    ELSE IF ch = EAcuteLower THEN EAcuteUpper
    ELSE ch

\* ord(ch) of a letter
Ord(ch) ==
    IF ch \in Range(UpperAZ) THEN 64 + IndexOf(UpperAZ, ch)
    ELSE IF ch \in Range(LowerAZ) THEN 96 + IndexOf(LowerAZ, ch)
    ELSE IF ch = EAcuteUpper THEN 201
    ELSE 233

\* the value int() gives a digit character, -1 for one it rejects
IntDigit(ch) ==
    IF ch \in Range(Digits09) THEN IndexOf(Digits09, ch) - 1
    ELSE IF ch = FullwidthOne THEN 1
    ELSE -1

\* str.upper() that leaves the text as it is
KeepCase(s) == s

\* str.upper()
UpperStr(s) == [i \in 1..Len(s) |-> Upper(s[i])]

\* str.isdigit(): not empty and every character a digit
IsDigitStr(s) == s # <<>> /\ \A i \in 1..Len(s) : IsDigit(s[i])

-----------------------------------------------------------------------------
(* a1_to_index *)

\* lines 83-85: the index i at which the leading run of letters of s ends
RECURSIVE AlphaRun(_, _)
AlphaRun(s, i) ==
    IF i < Len(s) /\ IsAlpha(s[i + 1]) THEN AlphaRun(s, i + 1) ELSE i

\* Malformed without the test for an empty column part
MalformedRowOnly(col_letters, row_digits) == ~IsDigitStr(row_digits)

\* line 87: not col_letters or not row_digits.isdigit()
Malformed(col_letters, row_digits) ==
    col_letters = <<>> \/ ~IsDigitStr(row_digits)

\* ColStep counting the letters from zero
ColStepFromZero(col_num, ch) == col_num * 26 + (Ord(ch) - Ord("A"))

\* line 91: col_num = col_num * 26 + (ord(ch) - ord('A') + 1)
ColStep(col_num, ch) == col_num * 26 + (Ord(ch) - Ord("A") + 1)

\* lines 89-91: the loop over col_letters
RECURSIVE ColNum(_, _)
ColNum(col_letters, col_num) ==
    IF col_letters = <<>> THEN col_num
    ELSE ColNum(Tail(col_letters), ColStep(col_num, Head(col_letters)))

\* int(row_digits) for digits that int() accepts
RECURSIVE IntOf(_, _)
IntOf(digits, acc) ==
    IF digits = <<>> THEN acc
    ELSE IntOf(Tail(digits), acc * 10 + IntDigit(Head(digits)))

\* the returned pair with its components exchanged
CoordinateSwapped(row_num, col_num) ==
    [kind |-> "ok", row |-> col_num - 1, col |-> row_num - 1]

\* line 92: (int(row_digits) - 1, col_num - 1)
Coordinate(row_num, col_num) ==
    [kind |-> "ok", row |-> row_num - 1, col |-> col_num - 1]

ValueError == [kind |-> "ValueError"]

\* lines 81-92
a1_to_index(ref) ==
    LET s == UpperStr(Strip(ref))
        i == AlphaRun(s, 0)
        col_letters == SubSeq(s, 1, i)
        row_digits == SubSeq(s, i + 1, Len(s))
    IN  IF Malformed(col_letters, row_digits) THEN ValueError
        ELSE IF \E k \in 1..Len(row_digits) : IntDigit(row_digits[k]) < 0
        THEN ValueError
        ELSE Coordinate(IntOf(row_digits, 0), ColNum(col_letters, 0))

\* the characters references are made of
RefChars ==
    {"A", "B", "M", "Z", "a", "z", "0", "1", "2", "3", "9", " ", "-",
     EAcuteLower, SuperscriptTwo, FullwidthOne}

RECURSIVE StringsUpTo(_, _)
StringsUpTo(chars, n) ==
    IF n = 0 THEN {<<>>}
    ELSE LET shorter == StringsUpTo(chars, n - 1)
         IN  shorter \cup {Append(x, ch) : x \in shorter, ch \in chars}

RefInputs == StringsUpTo(RefChars, MaxRefLen)

InitA1 ==
    /\ FetchInit
    /\ HandlerIdle
    /\ a1 \in RefInputs
    /\ index = NotRun
    /\ table = <<>>
    /\ dflt = <<>>
    /\ cell = NotRun

\* a1_to_index(a1) is called
Resolve ==
    /\ index = NotRun
    /\ index' = a1_to_index(a1)
    /\ UNCHANGED <<a1, table, dflt, cell>>
    /\ UNCHANGED <<fetchVars, handlerVars>>

NextA1 == Resolve

SpecA1 == InitA1 /\ [][NextA1]_vars

-----------------------------------------------------------------------------
(* get_a1 *)

IndexError == [kind |-> "IndexError"]

\* RowMissing that lets the row just past the end through
RowMissingPastEnd(r, tbl) == r < 0 \/ r > Len(tbl)

\* line 97: r < 0 or r >= len(rows)
RowMissing(r, tbl) == r < 0 \/ r >= Len(tbl)

\* line 100: c < 0 or c >= len(row)
ColumnMissing(c, row) == c < 0 \/ c >= Len(row)

\* a Python list subscript: seq[i], from the end when i is negative
Item(seq, i) ==
    IF i >= 0 /\ i < Len(seq) THEN [kind |-> "ok", value |-> seq[i + 1]]
    ELSE IF i < 0 /\ -i <= Len(seq) THEN [kind |-> "ok", value |-> seq[Len(seq) + i + 1]]
    ELSE IndexError

\* line 102: (row[c] or "").strip() or default
CellOrDefault(text, default) ==
    IF Strip(text) = <<>> THEN default ELSE Strip(text)

\* lines 95-102
get_a1(tbl, ref, default) ==
    LET rc == a1_to_index(ref)
    IN  IF rc.kind # "ok" THEN rc
        ELSE IF RowMissing(rc.row, tbl) THEN [kind |-> "ok", value |-> default]
        ELSE LET row == Item(tbl, rc.row)
             IN  IF row.kind # "ok" THEN row
                 ELSE IF ColumnMissing(rc.col, row.value)
                 THEN [kind |-> "ok", value |-> default]
                 ELSE LET item == Item(row.value, rc.col)
                      IN  IF item.kind # "ok" THEN item
                          ELSE [kind |-> "ok",
                                value |-> CellOrDefault(item.value, default)]

\* rows of zero to three cells: empty, blank, padded and plain cells
SampleRows ==
    { <<>>,
      << <<"x">> >>,
      << <<" ", "x", " ">>, <<>> >>,
      << <<" ">>, <<"y">>, <<"\t", "z", "\n">> >> }

RECURSIVE TablesUpTo(_)
TablesUpTo(n) ==
    IF n = 0 THEN {<<>>}
    ELSE LET shorter == TablesUpTo(n - 1)
         IN  shorter \cup {Append(tbl, row) : tbl \in shorter, row \in SampleRows}

LookupRefs ==
    {<<l, d>> : l \in {"A", "B", "C", "b", "D"}, d \in {"0", "1", "2", "3"}}
        \cup {<<"A", "A", "1">>, <<"A", "1", "0">>, <<" ", "c", "1">>, <<"1", "A">>}

Defaults == {<<"-">>, <<>>}

InitGet ==
    /\ FetchInit
    /\ HandlerIdle
    /\ a1 \in LookupRefs
    /\ table \in TablesUpTo(MaxRows)
    /\ dflt \in Defaults
    /\ index = NotRun
    /\ cell = NotRun

\* get_a1(table, a1, dflt) is called
Lookup ==
    /\ cell = NotRun
    /\ cell' = get_a1(table, a1, dflt)
    /\ UNCHANGED <<a1, index, table, dflt>>
    /\ UNCHANGED <<fetchVars, handlerVars>>

NextGet == Lookup

SpecGet == InitGet /\ [][NextGet]_vars

-----------------------------------------------------------------------------
(* handle_message: the two commands and their replies *)

\* the command texts compared at lines 541 and 548, each written as one
\* character that is not whitespace
WeeklyCommand == <<"[weekly-command]">>
DailyCommand == <<"[daily-command]">>

\* lines 491 and 497: the table each command fetches
CommandUrl(text) ==
    IF text = WeeklyCommand THEN "WEEKLY_CSV_URL" ELSE "DAILY_CSV_URL"

\* texts of incoming messages; a missing text is the empty text (line 539)
Messages ==
    { WeeklyCommand,
      DailyCommand,
      <<" ">> \o WeeklyCommand \o <<"\n">>,
      WeeklyCommand \o <<"?">>,
      <<"h", "i">>,
      <<>> }

\* what LineBotApi.reply_message can do: return, or raise
SendResults == {"sent", "LineBotApiError"}

\* lines 538-541, 548, 556-557: a text message event arrives; a command goes
\* into its try block and on into build_*_flex_message and fetch_gviz_csv,
\* any other text returns at once
HandleMessage(t, msg) ==
    /\ hpc[t] = "idle"
    /\ pc[t] = "idle"
    /\ event' = [event EXCEPT ![t] = Some(msg)]
    /\ IF Strip(msg) \in {WeeklyCommand, DailyCommand}
       THEN /\ hpc' = [hpc EXCEPT ![t] = "build"]
            /\ outcome' = [outcome EXCEPT ![t] = [NoOutcome EXCEPT !.fetches = 1]]
            /\ Enter(t, CommandUrl(Strip(msg)))
       ELSE /\ outcome' = [outcome EXCEPT ![t] = NoOutcome]
            /\ UNCHANGED <<hpc, fetchVars>>
    /\ UNCHANGED resolverVars

\* lines 490-499: fetch_gviz_csv has returned or raised inside
\* build_*_flex_message; the card is built, or the exception reaches the
\* except clause of line 544 or 551
Built(t) ==
    /\ hpc[t] = "build"
    /\ pc[t] = "idle"
    /\ hpc' = [hpc EXCEPT ![t] = IF result[t].kind \in Errors THEN "except" ELSE "reply"]
    /\ UNCHANGED <<event, outcome, fetchVars, resolverVars>>

\* lines 543 and 550: reply_message with the card, inside the try block
ReplyCard(t) ==
    /\ hpc[t] = "reply"
    /\ \E sent \in SendResults :
          IF sent = "sent"
          THEN /\ outcome' = [outcome EXCEPT ![t].sends = @ + 1, ![t].replies = @ + 1]
               /\ hpc' = [hpc EXCEPT ![t] = "idle"]
          ELSE /\ outcome' = [outcome EXCEPT ![t].sends = @ + 1]
               /\ hpc' = [hpc EXCEPT ![t] = "except"]
    /\ UNCHANGED <<event, fetchVars, resolverVars>>

\* lines 544-546 and 551-554: reply_message with the fallback text, inside
\* the except clause; what it raises is caught by nothing
ReplyFallback(t) ==
    /\ hpc[t] = "except"
    /\ \E sent \in SendResults :
          IF sent = "sent"
          THEN outcome' = [outcome EXCEPT ![t].sends = @ + 1, ![t].replies = @ + 1]
          ELSE outcome' = [outcome EXCEPT ![t].sends = @ + 1, ![t].raised = TRUE]
    /\ hpc' = [hpc EXCEPT ![t] = "idle"]
    /\ UNCHANGED <<event, fetchVars, resolverVars>>

HandlerStep(t) ==
    \/ \E msg \in Messages : HandleMessage(t, msg)
    \/ CacheRead(t)
    \/ CacheCheck(t)
    \/ HttpGet(t)
    \/ RequestFails(t)
    \/ Receive(t)
    \/ Parse(t)
    \/ CacheStore(t)
    \/ Built(t)
    \/ ReplyCard(t)
    \/ ReplyFallback(t)

NextHandler ==
    \/ Tick
    \/ \E t \in Threads : HandlerStep(t)

SpecHandler == Init /\ [][NextHandler]_vars

-----------------------------------------------------------------------------
(* The fetch cache: C1 - C5 *)

\* thread t's call returns in this step with a result of the given kinds
Returns(t, kinds) ==
    /\ pc[t] # "idle"
    /\ pc'[t] = "idle"
    /\ result'[t].kind \in kinds

\* C1: a call returns a table from the cache, without a GET, only in a step
\* where the cache holds an entry for the call's URL whose expiry is strictly
\* greater than the clock at the check, and the entry the call read is such
\* an entry; an entry whose expiry is equal to or before the clock is not
\* returned.
C1_ServedOnlyBeforeExpiry ==
    [][\A t \in Threads :
          Returns(t, {"cached"}) =>
              /\ pc[t] = "check"
              /\ GVIZ_CACHE[url[t]] # NoEntry
              /\ GVIZ_CACHE[url[t]][1] > now
              /\ exp_ts[t] > now
              /\ cached_rows[t] # None
              /\ result'[t].rows = cached_rows[t][1]
              /\ result'[t].gets = 0]_vars

\* a call was served from the cache
C1_Witness ==
    \E t \in Threads : pc[t] = "idle" /\ result[t].kind = "cached"

\* C2: with one caller at a time, when a successful call fetched and stored
\* the table at time s and the next call for the same URL succeeds with its
\* cache check at time t0, the two calls make one GET in total when
\* t0 < s + CACHE_TTL_SECONDS and two when t0 > s + CACHE_TTL_SECONDS.
C2_OneGetWithinTtlTwoAfter ==
    [][\A t \in Threads :
          LET u == url[t]
              t0 == IF pc[t] = "check" THEN now ELSE checkAt[t]
              total == last[u].gets + result'[t].gets
          IN  (Returns(t, {"cached", "fetched"}) /\ last[u].ok /\ last[u].gets = 1) =>
                  /\ t0 < last[u].at + CACHE_TTL_SECONDS => total = 1
                  /\ t0 > last[u].at + CACHE_TTL_SECONDS => total = 2]_vars

\* the second of two calls for one URL was served from the cache
C2_Witness ==
    /\ ncalls = 2
    /\ pc[1] = "idle"
    /\ result[1].kind = "cached"
    /\ last[url[1]].ok
    /\ last[url[1]].gets = 0

\* C3: a call that fails made exactly one GET and its failing step leaves
\* the cache as it is; the cache changes only in the step in which a call
\* that fetched a table stores it, and only at that call's URL.
C3_FailureLeavesCache ==
    [][/\ \A t \in Threads :
             Returns(t, Errors) =>
                 /\ result'[t].gets = 1
                 /\ GVIZ_CACHE' = GVIZ_CACHE
       /\ GVIZ_CACHE' # GVIZ_CACHE =>
             \E t \in Threads :
                 /\ Returns(t, {"fetched"})
                 /\ pc[t] = "store"
                 /\ \A u \in Urls \ {url[t]} : GVIZ_CACHE'[u] = GVIZ_CACHE[u]]_vars

\* a call failed while the cache held an entry for its URL
C3_Witness ==
    \E t \in Threads :
        /\ pc[t] = "idle"
        /\ result[t].kind \in Errors
        /\ result[t].gets = 1
        /\ GVIZ_CACHE[url[t]] # NoEntry

\* a body that is an HTML document: the marker follows leading whitespace
IsHtmlDocument(body) ==
    \E i \in 0..Len(body) :
        /\ \A j \in 1..i : body[j] \in Whitespace
        /\ i + Len(HtmlMarker) <= Len(body)
        /\ \A k \in 1..Len(HtmlMarker) : body[i + k] = HtmlMarker[k]

C5_LastWriterWins ==
    \A u \in Urls :
        IF lastStore[u] = NoEntry
        THEN GVIZ_CACHE[u] = NoEntry
        ELSE GVIZ_CACHE[u] = <<lastStore[u][2], lastStore[u][3]>>

\* two calls for one URL both missed the cache before either stored, each
\* made its own GET, one has stored and the other is about to overwrite
\* the entry with different rows
C5_Witness ==
    \E t1, t2 \in Threads :
        /\ t1 # t2
        /\ url[t1] = url[t2]
        /\ now = 0
        /\ pc[t1] = "idle"
        /\ result[t1].kind = "fetched"
        /\ result[t1].gets = 1
        /\ pc[t2] = "store"
        /\ nget[t2] = 1
        /\ rows[t2][1] # GVIZ_CACHE[url[t2]][2]

-----------------------------------------------------------------------------
(* The address resolver: C6 - C9 *)

\* ^[A-Za-z]+[0-9]+$ : k letters, then one or more digits
LetterCount(ref) ==
    CHOOSE k \in 0..Len(ref) :
        /\ \A i \in 1..k : ref[i] \in Range(UpperAZ) \cup Range(LowerAZ)
        /\ k < Len(ref) => ref[k + 1] \notin Range(UpperAZ) \cup Range(LowerAZ)

WellFormed(ref) ==
    /\ LetterCount(ref) >= 1
    /\ LetterCount(ref) < Len(ref)
    /\ \A i \in (LetterCount(ref) + 1)..Len(ref) : ref[i] \in Range(Digits09)

LettersOf(ref) == SubSeq(ref, 1, LetterCount(ref))
DigitsOf(ref) == SubSeq(ref, LetterCount(ref) + 1, Len(ref))

RECURSIVE Pow(_, _)
Pow(b, e) == IF e = 0 THEN 1 ELSE b * Pow(b, e - 1)

\* A = a = 1, ..., Z = z = 26
LetterNumber(ch) == CHOOSE n \in 1..26 : UpperAZ[n] = ch \/ LowerAZ[n] = ch

\* the bijective base-26 value of the letters: the sum of
\* LetterNumber(letters[i]) * 26^(n - i)
RECURSIVE ColumnNumber(_, _)
ColumnNumber(letters, i) ==
    IF i > Len(letters) THEN 0
    ELSE LetterNumber(letters[i]) * Pow(26, Len(letters) - i)
             + ColumnNumber(letters, i + 1)

\* the decimal value of the digits
RECURSIVE RowNumber(_, _)
RowNumber(digits, i) ==
    IF i > Len(digits) THEN 0
    ELSE (IndexOf(Digits09, digits[i]) - 1) * Pow(10, Len(digits) - i)
             + RowNumber(digits, i + 1)

Resolved == index.kind # "none"

\* the examples of the specification: reference, row index, column index
Examples ==
    { << <<"A", "1">>, 0, 0 >>,
      << <<"M", "1", "9">>, 18, 12 >>,
      << <<"Z", "1">>, 0, 25 >>,
      << <<"A", "A", "1">>, 0, 26 >>,
      << <<"A", "B", "2">>, 1, 27 >>,
      << <<"A", "Z", "1">>, 0, 51 >>,
      << <<"B", "A", "1">>, 0, 52 >>,
      << <<"a", "b", "2">>, 1, 27 >> }

\* C6: for a well-formed reference a1_to_index returns (row number - 1,
\* column number - 1), the column number being the bijective base-26 value
\* of the letters whatever their case; A1 -> (0,0), M19 -> (18,12),
\* Z1 -> (0,25), AA1 -> (0,26), AB2 -> (1,27).
C6_BijectiveBase26 ==
    Resolved =>
        /\ WellFormed(a1) =>
              /\ index.kind = "ok"
              /\ index.row = RowNumber(DigitsOf(a1), 1) - 1
              /\ index.col = ColumnNumber(LettersOf(a1), 1) - 1
        /\ \A e \in Examples :
              a1 = e[1] => index.kind = "ok" /\ index.row = e[2] /\ index.col = e[3]

\* AB2 was resolved to (1, 27)
C6_Witness ==
    /\ a1 = <<"A", "B", "2">>
    /\ index.kind = "ok"
    /\ index.row = 1
    /\ index.col = 27

\* re-encoding: the letters of a column number in bijective base 26
RECURSIVE ColumnLetters(_)
ColumnLetters(n) ==
    IF n <= 0 THEN <<>>
    ELSE LET d == ((n - 1) % 26) + 1
         IN  Append(ColumnLetters((n - d) \div 26), UpperAZ[d])

\* re-encoding: the decimal digits of a row number
RECURSIVE Decimal(_)
Decimal(n) ==
    IF n < 10 THEN <<Digits09[n + 1]>>
    ELSE Append(Decimal(n \div 10), Digits09[(n % 10) + 1])

ToA1(row, col) == ColumnLetters(col + 1) \o Decimal(row + 1)

\* C7 as stated: every well-formed reference is re-encoded to itself in
\* upper case.
C7_RoundTripAnyRow ==
    (Resolved /\ WellFormed(a1)) =>
        /\ index.kind = "ok"
        /\ ToA1(index.row, index.col) = UpperStr(a1)

\* C7: every well-formed reference whose row number is written without a
\* leading zero is re-encoded to itself in upper case, for columns through ZZ
\* and beyond.
C7_RoundTrip ==
    (Resolved /\ WellFormed(a1) /\ Head(DigitsOf(a1)) # "0") =>
        /\ index.kind = "ok"
        /\ ToA1(index.row, index.col) = UpperStr(a1)

\* zz2 was resolved and re-encodes to ZZ2
C7_Witness ==
    /\ a1 = <<"z", "z", "2">>
    /\ index.kind = "ok"
    /\ ToA1(index.row, index.col) = <<"Z", "Z", "2">>

\* what a1_to_index takes: whitespace, one or more letters of any alphabet,
\* one or more decimal digits, whitespace
Accepted(ref) ==
    \E i \in 0..Len(ref), j \in 0..Len(ref), k \in 0..Len(ref) :
        /\ i < j /\ j < k
        /\ \A n \in 1..i : ref[n] \in Whitespace
        /\ \A n \in (i + 1)..j : IsAlpha(ref[n])
        /\ \A n \in (j + 1)..k : IntDigit(ref[n]) >= 0
        /\ \A n \in (k + 1)..Len(ref) : ref[n] \in Whitespace

Rejected ==
    { <<>>, <<"1", "2", "3">>, <<"A">>, <<"1", "A">>, <<"A", "-", "1">> }

\* C8 as stated: a coordinate is returned exactly for the strings of
\* ^[A-Za-z]+[0-9]+$ and every other string fails with ValueError.
C8_OnlyLettersThenDigits ==
    Resolved =>
        IF WellFormed(a1) THEN index.kind = "ok" ELSE index = ValueError

\* C8: a coordinate is returned exactly for the strings that, with the
\* whitespace around them trimmed, are one or more letters (of any alphabet)
\* followed by one or more decimal digits (of any script); every other
\* string, "", "123", "A", "1A" and "A-1" among them, fails with ValueError.
C8_AcceptedInputs ==
    Resolved =>
        /\ IF Accepted(a1) THEN index.kind = "ok" ELSE index = ValueError
        /\ a1 \in Rejected => index = ValueError
        /\ WellFormed(a1) => Accepted(a1)

\* A-1 was rejected
C8_Witness ==
    /\ a1 = <<"A", "-", "1">>
    /\ index = ValueError

\* C9 as stated: the row index and the column index of a well-formed
\* reference are not negative.
C9_NonNegative ==
    (Resolved /\ WellFormed(a1) /\ index.kind = "ok") =>
        index.row >= 0 /\ index.col >= 0

\* C9: for a well-formed reference the column index is not negative, and the
\* row index is not negative unless the row number is zero, when it is -1.
C9_NonNegativeFromRowOne ==
    (Resolved /\ WellFormed(a1) /\ index.kind = "ok") =>
        /\ index.col >= 0
        /\ IF \A i \in 1..Len(DigitsOf(a1)) : DigitsOf(a1)[i] = "0"
           THEN index.row = -1
           ELSE index.row >= 0

\* A1, the least reference, was resolved to (0, 0)
C9_Witness ==
    /\ a1 = <<"a", "1">>
    /\ index.kind = "ok"
    /\ index.row = 0
    /\ index.col = 0

-----------------------------------------------------------------------------
(* The table lookup: C10 *)

\* x is text with the whitespace around it removed
IsTrimOf(x, text) ==
    /\ x = <<>> \/ (x[1] \notin Whitespace /\ x[Len(x)] \notin Whitespace)
    /\ \E i \in 0..Len(text) :
          /\ i + Len(x) <= Len(text)
          /\ \A n \in 1..i : text[n] \in Whitespace
          /\ \A n \in 1..Len(x) : text[i + n] = x[n]
          /\ \A n \in (i + Len(x) + 1)..Len(text) : text[n] \in Whitespace

\* C10: for a well-formed reference get_a1 raises nothing; it returns the
\* default when the row index is outside [0, rowCount), when the column index
\* is outside that row, or when the cell is empty or blank, and the trimmed
\* cell in every other case.
C10_LookupNeverRaises ==
    (cell.kind # "none" /\ WellFormed(a1)) =>
        LET r == RowNumber(DigitsOf(a1), 1) - 1
            c == ColumnNumber(LettersOf(a1), 1) - 1
        IN  /\ cell.kind = "ok"
            /\ IF r \notin 0..(Len(table) - 1) THEN cell.value = dflt
               ELSE IF c \notin 0..(Len(table[r + 1]) - 1) THEN cell.value = dflt
               ELSE IF IsTrimOf(<<>>, table[r + 1][c + 1]) THEN cell.value = dflt
               ELSE IsTrimOf(cell.value, table[r + 1][c + 1])

\* in a ragged table a padded cell was returned trimmed
C10_Witness ==
    /\ cell.kind = "ok"
    /\ Len(table) = 2
    /\ Len(table[1]) # Len(table[2])
    /\ a1 = <<"A", "2">>
    /\ table[2][1] = <<" ", "x", " ">>
    /\ cell.value = <<"x">>

-----------------------------------------------------------------------------
(* The message handler: C11 *)

\* thread t has handled a message event to the end
Handled(t) == event[t] # None /\ hpc[t] = "idle"

\* C11: every handled command has exactly one successful reply, no exception
\* has left the handler, and a failure while building or sending the card
\* led to one fallback reply; every other text caused no fetch and no reply.
C11_OneReplyNoException ==
    \A t \in Threads :
        Handled(t) =>
            IF Strip(event[t][1]) \in {WeeklyCommand, DailyCommand}
            THEN /\ ~outcome[t].raised
                 /\ outcome[t].replies = 1
                 /\ outcome[t].sends \in {1, 2}
            ELSE /\ ~outcome[t].raised
                 /\ outcome[t].replies = 0
                 /\ outcome[t].sends = 0
                 /\ outcome[t].fetches = 0

====
